---- MODULE Spec2Model ----
(***************************************************************************)
(* Flood category resolution and accuracy aggregation of                   *)
(* FloodImpactMapping: the two point resolvers (check_flood_at_point of    *)
(* analyze_flood_accuracy.py, FloodImpactMapper.get_flood_category_at_point *)
(* of flood_impact_mapper.py), the line resolver get_max_flood_for_line    *)
(* and the aggregation loop of analyze_flood_accuracy.                     *)
(*                                                                         *)
(* Units.  Coordinates are integers; one unit is half the default          *)
(* deduplication precision (1e-5, analyze_flood_accuracy.py:103).  A       *)
(* raster cell is 3 units wide and high, so cell centres lie at k + 1/2    *)
(* and no cell centre lies exactly on the rim of a buffer of integer       *)
(* radius.                                                                 *)
(***************************************************************************)
EXTENDS Integers, Sequences, FiniteSets, TLC

\* ---------------------------------------------------------------- bounds
GridH == 1
GridW == 3
MaxRadius == 3
MaxFeatures == 2
MaxVertices == 3
MaxCalls == 1
MaxRows == 3
MaxPrecision == 4
MaxFilterCalls == 2
DepthCells == 2
MaxDepth == 11
MaxThreshold == 2
MaxRepeat == 3
MaxDirect == 1
MaxWorkers == 2
MaxRuns == 2

\* ------------------------------------------------------- program constants
\* nodata=255 of the categorical raster
NoData == 255
\* search_distance=1e-5, the default of check_flood_at_point
DefaultSearchDistance == 2
\* search_distance=2e-5, passed by analyze_flood_accuracy
ClaimSearchDistance == 4
\* precision=1e-5, the default of filter_unique_features
DefaultPrecision == 2
\* nodata=-9999 of a depth raster
SrcNoData == -9999

VARIABLES
    flood_data,        \* the raster band: [row, col] -> stored value
    flood_crs,         \* the raster's coordinate reference
    search_distance,   \* FloodImpactMapper.search_distance
    call,              \* the last resolver call: arguments, outcome, steps
    ncalls,            \* resolver calls made by the session so far
    claims_gdf,        \* analyze_flood_accuracy: the features passed in
    claims_unique,     \* ... after reprojection, cropping and deduplication
    pc,                \* ... position of analyze_flood_accuracy
    idx,               \* ... features processed by the loop so far
    total_claims,
    covered_claims,
    flood_categories,  \* ... the histogram {0: n0, ..., 4: n4}
    result,            \* ... <<the returned dict>>, or <<>> before the return
    dedup,             \* the last call of filter_unique_features
    reclass,           \* the last call of reclassify_flood_map
    history,           \* the resolutions of a session, oldest first
    mapper,            \* FloodImpactMapper.run: position, frames, accesses
    partial,           \* the loop's iterations, shared out among workers
    runs               \* earlier calls of analyze_flood_accuracy, as ended

vars == <<flood_data, flood_crs, search_distance, call, ncalls, claims_gdf,
          claims_unique, pc, idx, total_claims, covered_claims,
          flood_categories, result, dedup, reclass, history, mapper, partial,
          runs>>

\* ----------------------------------------------------------------- helpers
Max(S) == CHOOSE m \in S : \A n \in S : n <= m

Min(S) == CHOOSE m \in S : \A n \in S : m <= n

RECURSIVE SumOver(_, _)
SumOver(f, S) ==
    IF S = {} THEN 0
    ELSE LET k == CHOOSE k \in S : TRUE IN f[k] + SumOver(f, S \ {k})

\* ------------------------------------------------------------------ raster
Rows == 0 .. (GridH - 1)

Cols == 0 .. (GridW - 1)

Cells == Rows \X Cols

\* keys of FloodImpactMapper.flood_categories
FloodCategories == 0 .. 4

CellValues == FloodCategories \cup {NoData}

Rasters == [Cells -> CellValues]

\* Affine transform of a north-up raster: x = c + a*col, y = f + e*row.
flood_transform == [a |-> 3, c |-> 0, e |-> -3, f |-> 3 * GridH]

height == GridH

width == GridW

CRSs == {"EPSG:4326", "EPSG:32615"}

\* GeoDataFrame.to_crs: the identity between equal references, otherwise a
\* change of coordinates (here a shift by one cell width, and its inverse).
to_crs(p, src, dst) ==
    IF src = dst THEN p
    ELSE IF dst = "EPSG:4326" THEN <<p[1] - 3, p[2]>>
    ELSE <<p[1] + 3, p[2]>>

\* rasterio.transform.rowcol: floor of the inverse transform.
rowcol(x, y) ==
    << (flood_transform.f - y) \div (0 - flood_transform.e),
       (x - flood_transform.c) \div flood_transform.a >>

InBounds(row, col) == 0 <= row /\ row < height /\ 0 <= col /\ col < width

\* Twice the centre of a cell, so that it is an integer.
Centre2(cell) ==
    << 2 * flood_transform.c + flood_transform.a * (2 * cell[2] + 1),
       2 * flood_transform.f + flood_transform.e * (2 * cell[1] + 1) >>

\* The cell's centre lies in the disc point.buffer(radius).
InBuffer(cell, p, radius) ==
    LET c2 == Centre2(cell)
        dx == c2[1] - 2 * p[1]
        dy == c2[2] - 2 * p[2]
    IN dx * dx + dy * dy <= 4 * radius * radius

\* The bounding box of the buffer meets the raster's extent.
Overlaps(p, radius) ==
    /\ p[1] + radius > flood_transform.c
    /\ p[1] - radius < flood_transform.c + flood_transform.a * width
    /\ p[2] + radius > flood_transform.f + flood_transform.e * height
    /\ p[2] - radius < flood_transform.f

\* rasterio.mask.mask(src, [buffer], crop=True, nodata=0): the stored values of
\* the cells whose centre the buffer covers; every other cell of the window,
\* and every cell holding the raster's declared nodata, is filled with 0.
MaskedValues(p, radius) ==
    {0} \cup { flood_data[cell] : cell \in
                 { c \in Cells : InBuffer(c, p, radius) /\ flood_data[c] # NoData } }

\* ------------------------------------------------------------ point inputs
\* Points handed to the resolvers, in EPSG:4326: every integer position of the
\* raster's extent and one unit beyond it on each side.
Points == (-1 .. (3 * GridW)) \X (0 .. (3 * GridH + 1))

Radii == 1 .. MaxRadius

\* The step of a resolver that fails when it is executed ("none": no step).
Faults == {"none", "to_crs", "buffer", "read", "mask"}

\* What a resolver call did: how it ended, the value returned, the branch that
\* produced it, the cells read by the exact-cell step and whether the masked
\* region was read.
Outcome(outcome, ret, path, reads, masked) ==
    [outcome |-> outcome, ret |-> ret, path |-> path, reads |-> reads,
     masked |-> masked]

\* ----------------------------------------------------- check_flood_at_point
\* Mutant: the buffer is consulted first and overrides an exact hit.
check_flood_at_point_buffer_first(point, search, fault) ==
    LET point_geom == to_crs(point, "EPSG:4326", flood_crs)
        rc == rowcol(point_geom[1], point_geom[2])
        inside == InBounds(rc[1], rc[2])
        max_value == Max(MaskedValues(point_geom, search))
    IN  IF fault # "none" THEN Outcome("returned", 0, "except", {}, FALSE)
        ELSE IF max_value > 0
          THEN Outcome("returned", max_value, "buffer", {}, TRUE)
        ELSE IF inside /\ flood_data[rc] > 0
          THEN Outcome("returned", flood_data[rc], "exact", {rc}, TRUE)
        ELSE Outcome("returned", 0, "buffer", {}, TRUE)

\* Mutant: only the upper bounds are tested, and a negative index reads from
\* the far end of the array.
check_flood_at_point_wrapping(point, search, fault) ==
    LET point_geom == to_crs(point, "EPSG:4326", flood_crs)
        rc == rowcol(point_geom[1], point_geom[2])
        inside == rc[1] < height /\ rc[2] < width
        cell == << rc[1] % height, rc[2] % width >>
    IN  IF inside /\ flood_data[cell] > 0
          THEN Outcome("returned", flood_data[cell], "exact", {cell}, FALSE)
        ELSE IF ~Overlaps(point_geom, search)
          THEN Outcome("returned", 0, "except",
                       IF inside THEN {cell} ELSE {}, FALSE)
        ELSE LET max_value == Max(MaskedValues(point_geom, search))
             IN  Outcome("returned", IF max_value > 0 THEN max_value ELSE 0,
                         "buffer", IF inside THEN {cell} ELSE {}, TRUE)

check_flood_at_point(point, search, fault) ==
    LET point_geom == to_crs(point, "EPSG:4326", flood_crs)
        rc == rowcol(point_geom[1], point_geom[2])
        inside == InBounds(rc[1], rc[2])
    IN  IF fault \in {"to_crs", "buffer"}
          THEN Outcome("returned", 0, "except", {}, FALSE)
        ELSE IF inside /\ fault = "read"
          THEN Outcome("returned", 0, "except", {}, FALSE)
        ELSE IF inside /\ flood_data[rc] > 0
          THEN Outcome("returned", flood_data[rc], "exact", {rc}, FALSE)
        ELSE IF fault = "mask" \/ ~Overlaps(point_geom, search)
          THEN Outcome("returned", 0, "except",
                       IF inside THEN {rc} ELSE {}, FALSE)
        ELSE LET max_value == Max(MaskedValues(point_geom, search))
             IN  Outcome("returned", IF max_value > 0 THEN max_value ELSE 0,
                         "buffer", IF inside THEN {rc} ELSE {}, TRUE)

\* ------------------------------ FloodImpactMapper.get_flood_category_at_point
\* Only the masked read lies in the try block.  The cell is read from the
\* array held in memory, so a "read" fault does not arise here.
get_flood_category_at_point(point, fault) ==
    LET point_geom == to_crs(point, "EPSG:4326", flood_crs)
        rc == rowcol(point_geom[1], point_geom[2])
        inside == InBounds(rc[1], rc[2])
    IN  IF fault \in {"to_crs", "buffer"}
          THEN Outcome("raised", 0, "raise", {}, FALSE)
        ELSE IF inside /\ flood_data[rc] \in FloodCategories
          THEN Outcome("returned", flood_data[rc], "exact", {rc}, FALSE)
        ELSE IF fault = "mask" \/ ~Overlaps(point_geom, search_distance)
          THEN Outcome("returned", 0, "except",
                       IF inside THEN {rc} ELSE {}, FALSE)
        ELSE LET max_value == Max(MaskedValues(point_geom, search_distance))
             IN  Outcome("returned",
                         IF max_value \in FloodCategories THEN max_value ELSE 0,
                         "buffer", IF inside THEN {rc} ELSE {}, TRUE)

\* ------------------------------------------------------------------- state
NoCall ==
    [fn |-> "none", point |-> <<0, 0>>, search |-> 0, fault |-> "none",
     geom_type |-> "none", coords |-> <<>>, samples |-> <<>>, cats |-> <<>>]
    @@ Outcome("none", 0, "none", {}, FALSE)

PointCall(fn, point, search, fault, out) ==
    [fn |-> fn, point |-> point, search |-> search, fault |-> fault,
     geom_type |-> "Point", coords |-> <<>>, samples |-> <<>>, cats |-> <<>>]
    @@ out

NoAnalysis ==
    /\ claims_gdf = <<>>
    /\ claims_unique = <<>>
    /\ pc = "idle"
    /\ idx = 0
    /\ total_claims = 0
    /\ covered_claims = 0
    /\ flood_categories = [k \in FloodCategories |-> 0]
    /\ result = <<>>

analysis_vars == <<claims_gdf, claims_unique, pc, idx, total_claims,
                   covered_claims, flood_categories, result>>

raster_vars == <<flood_data, flood_crs, search_distance>>

\* No call of filter_unique_features has been made.
NoDedup ==
    [precision |-> 0, passed |-> <<>>, outcome |-> "none", removed |-> 0,
     calls |-> 0]

\* No call of reclassify_flood_map has been made.
NoReclass ==
    [given |-> FALSE, depth_thresholds |-> <<>>, data |-> <<>>,
     outcome |-> "none", thresholds |-> <<>>, opened |-> FALSE,
     written |-> FALSE, preview |-> FALSE, classified |-> <<>>,
     nodata |-> 0]

\* A frame attribute of the mapper that no fetch has set.
NoFrame ==
    [attr |-> FALSE, geometry |-> <<>>, column |-> FALSE,
     flood_category |-> <<>>]

\* No mapper is constructed.
NoMapper ==
    [pc |-> "none", step |-> 0, direct |-> 0, road_gdf |-> NoFrame,
     infrastructure_gdf |-> NoFrame, log |-> <<>>]

\* No iteration has been handed to a worker.
NoPartial == [taken |-> <<>>, parts |-> <<>>]

session_vars == <<mapper, partial, runs>>

other_vars == <<dedup, reclass, history, session_vars>>

NoOther ==
    /\ dedup = NoDedup
    /\ reclass = NoReclass
    /\ history = <<>>
    /\ mapper = NoMapper
    /\ partial = NoPartial
    /\ runs = <<>>

\* A raster is loaded and a mapper constructed with some search distance.
InitRaster ==
    /\ flood_data \in Rasters
    /\ flood_crs \in CRSs
    /\ search_distance \in Radii
    /\ call = NoCall
    /\ ncalls = 0

\* --------------------------------------------------------- point resolution
CheckFloodAtPoint(P, R, F) ==
    \E point \in P, search \in R, fault \in F :
        /\ ncalls < MaxCalls
        /\ ncalls' = ncalls + 1
        /\ call' = PointCall("check_flood_at_point", point, search, fault,
                             check_flood_at_point(point, search, fault))
        /\ UNCHANGED <<raster_vars, analysis_vars, other_vars>>

GetFloodCategoryAtPoint(P, F) ==
    \E point \in P, fault \in F :
        /\ ncalls < MaxCalls
        /\ ncalls' = ncalls + 1
        /\ call' = PointCall("get_flood_category_at_point", point,
                             search_distance, fault,
                             get_flood_category_at_point(point, fault))
        /\ UNCHANGED <<raster_vars, analysis_vars, other_vars>>

InitPoint == InitRaster /\ NoAnalysis /\ NoOther

NextPoint ==
    \/ CheckFloodAtPoint(Points, Radii, {"none"})
    \/ GetFloodCategoryAtPoint(Points, {"none"})

SpecPoint == InitPoint /\ [][NextPoint]_vars

\* ------------------------------------------------------------- line inputs
Abs(n) == IF n < 0 THEN 0 - n ELSE n

\* Vertices of the lines handed to the line resolver: the positions of even
\* x one unit below the raster's upper edge, so that every segment is
\* horizontal, of even length, and the mid-point of a line is a position.
LineVertices == { p \in Points : p[1] % 2 = 0 /\ p[2] = flood_transform.f - 1 }

LineStrings ==
    { l \in UNION { [1 .. n -> LineVertices] : n \in 2 .. MaxVertices } :
        \A i \in 1 .. (Len(l) - 1) : l[i] # l[i + 1] }

\* Length of an axis-parallel segment.
SegLen(a, b) == Abs(b[1] - a[1]) + Abs(b[2] - a[2])

RECURSIVE Length(_)
Length(coords) ==
    IF Len(coords) < 2 THEN 0
    ELSE SegLen(coords[1], coords[2]) + Length(Tail(coords))

Sign(n) == IF n > 0 THEN 1 ELSE IF n < 0 THEN 0 - 1 ELSE 0

\* shapely's line.interpolate(distance): the point at that arc length.
RECURSIVE interpolate(_, _)
interpolate(coords, distance) ==
    IF Len(coords) = 1 THEN coords[1]
    ELSE LET a == coords[1]
             b == coords[2]
         IN  IF distance <= SegLen(a, b)
               THEN << a[1] + Sign(b[1] - a[1]) * distance,
                       a[2] + Sign(b[2] - a[2]) * distance >>
               ELSE interpolate(Tail(coords), distance - SegLen(a, b))

Geometries ==
    { [geom_type |-> "LineString", coords |-> l] : l \in LineStrings }
    \cup { [geom_type |-> t, coords |-> l] :
             t \in {"MultiLineString", "Polygon"},
             l \in { k \in LineStrings : Len(k) = 2 } }
    \cup { [geom_type |-> "Point", coords |-> <<v>>] : v \in LineVertices }

SeqRange(q) == { q[i] : i \in 1 .. Len(q) }

LineOutcome(ret, samples, cats) ==
    [ret |-> ret, samples |-> samples, cats |-> cats]

\* --------------- FloodImpactMapper.assign_flood_categories.get_max_flood_for_line
\* Mutant: the minimum of the three categories.
get_max_flood_for_line_min(geom_type, coords) ==
    IF geom_type = "LineString"
      THEN LET points == << coords[1],
                            interpolate(coords, Length(coords) \div 2),
                            coords[Len(coords)] >>
               cats == [i \in 1 .. 3 |->
                          get_flood_category_at_point(points[i], "none").ret]
           IN  LineOutcome(Min(SeqRange(cats)), points, cats)
      ELSE LineOutcome(0, <<>>, <<>>)

\* Mutant: every geometry with two coordinates or more is sampled.
get_max_flood_for_line_any(geom_type, coords) ==
    IF Len(coords) >= 2
      THEN LET points == << coords[1],
                            interpolate(coords, Length(coords) \div 2),
                            coords[Len(coords)] >>
               cats == [i \in 1 .. 3 |->
                          get_flood_category_at_point(points[i], "none").ret]
           IN  LineOutcome(Max(SeqRange(cats)), points, cats)
      ELSE LineOutcome(0, <<>>, <<>>)

get_max_flood_for_line(geom_type, coords) ==
    IF geom_type = "LineString"
      THEN LET points == << coords[1],
                            interpolate(coords, Length(coords) \div 2),
                            coords[Len(coords)] >>
               cats == [i \in 1 .. 3 |->
                          get_flood_category_at_point(points[i], "none").ret]
           IN  LineOutcome(Max(SeqRange(cats)), points, cats)
      ELSE LineOutcome(0, <<>>, <<>>)

GetMaxFloodForLine ==
    \E line \in Geometries :
        LET out == get_max_flood_for_line(line.geom_type, line.coords)
        IN  /\ ncalls < MaxCalls
            /\ ncalls' = ncalls + 1
            /\ call' = [fn |-> "get_max_flood_for_line", point |-> <<0, 0>>,
                        search |-> search_distance, fault |-> "none",
                        geom_type |-> line.geom_type, coords |-> line.coords,
                        samples |-> out.samples, cats |-> out.cats]
                       @@ Outcome("returned", out.ret, "line", {}, FALSE)
            /\ UNCHANGED <<raster_vars, analysis_vars, other_vars>>

InitLine == InitPoint

NextLine == GetMaxFloodForLine

SpecLine == InitLine /\ [][NextLine]_vars

\* Row of points through the first raster line, for the fault runs.
FaultPoints == { p \in Points : p[2] = flood_transform.f - 1 }

InitFault == InitPoint

NextFault ==
    \/ CheckFloodAtPoint(FaultPoints, {DefaultSearchDistance}, Faults)
    \/ GetFloodCategoryAtPoint(FaultPoints, Faults)

SpecFault == InitFault /\ [][NextFault]_vars

\* ------------------------------------------------------- accuracy analysis
\* The claims handed to analyze_flood_accuracy, in EPSG:4326 (load_claims):
\* a position and the kind of claim.
FeatureXs == {-1, 1, 3, 4, 7, 3 * GridW}

FeaturePoints == { p \in Points : p[1] \in FeatureXs /\ p[2] = flood_transform.f - 1 }

Attrs == {"auto", "property"}

Features == [geometry : FeaturePoints, attr : Attrs]

FeatureCollections == UNION { [1 .. n -> Features] : n \in 0 .. MaxFeatures }

\* claims_gdf.to_crs(flood_src.crs)
claims_to_crs(gdf, src, dst) ==
    [i \in 1 .. Len(gdf) |->
        [gdf[i] EXCEPT !.geometry = to_crs(@, src, dst)]]

\* The point meets box(bounds.left, bounds.bottom, bounds.right, bounds.top).
InFootprint(p) ==
    /\ flood_transform.c <= p[1]
    /\ p[1] <= flood_transform.c + flood_transform.a * width
    /\ flood_transform.f + flood_transform.e * height <= p[2]
    /\ p[2] <= flood_transform.f

\* Mutant: no cropping, every claim is kept.
overlay_keep_all(gdf) == gdf

\* Mutant: the box is not closed on its left side.
overlay_no_left_bound(gdf) ==
    LET Keep(feature) ==
            /\ feature.geometry[1] <= flood_transform.c + flood_transform.a * width
            /\ flood_transform.f + flood_transform.e * height <= feature.geometry[2]
            /\ feature.geometry[2] <= flood_transform.f
    IN  SelectSeq(gdf, Keep)

\* gpd.overlay(claims_crs, flood_bbox, how='intersection')
overlay_intersection(gdf) ==
    LET Keep(feature) == InFootprint(feature.geometry)
    IN  SelectSeq(gdf, Keep)

\* int(-np.log10(precision)) decimals, as the unit rounded to: the smallest
\* power of ten that is at least the precision (1e-5 is 2 units, 1e-4 is 20).
RoundUnit(precision) ==
    IF precision <= DefaultPrecision THEN DefaultPrecision
    ELSE 10 * DefaultPrecision

\* Series.round(decimals): the nearest multiple of the unit, a tie going to
\* the even multiple.
round(x, unit) ==
    LET q == x \div unit
        r == x % unit
    IN  IF 2 * r < unit THEN q * unit
        ELSE IF 2 * r > unit THEN (q + 1) * unit
        ELSE IF q % 2 = 0 THEN q * unit
        ELSE (q + 1) * unit

rounded_xy(feature, precision) ==
    << round(feature.geometry[1], RoundUnit(precision)),
       round(feature.geometry[2], RoundUnit(precision)) >>

\* Mutant: the last row of each key is kept (keep='last').
drop_duplicates_keep_last(gdf, precision, seen) ==
    LET Last(i) == \A j \in (i + 1) .. Len(gdf) :
                       rounded_xy(gdf[j], precision) # rounded_xy(gdf[i], precision)
        kept == { i \in 1 .. Len(gdf) : Last(i) }
        Kth(k) == CHOOSE i \in kept : Cardinality({ j \in kept : j < i }) = k - 1
    IN  [k \in 1 .. Cardinality(kept) |-> gdf[Kth(k)]]

\* DataFrame.drop_duplicates(subset=['rounded_x', 'rounded_y']): the first row
\* of each key, in the rows' order.
RECURSIVE drop_duplicates(_, _, _)
drop_duplicates(gdf, precision, seen) ==
    IF gdf = <<>> THEN <<>>
    ELSE LET key == rounded_xy(gdf[1], precision)
         IN  IF key \in seen
               THEN drop_duplicates(Tail(gdf), precision, seen)
               ELSE <<gdf[1]>>
                    \o drop_duplicates(Tail(gdf), precision, seen \cup {key})

\* Mutant: rows are compared on rounded_x alone (subset=['rounded_x']).
filter_unique_features_by_x(gdf, precision) ==
    LET First(i) == \A j \in 1 .. (i - 1) :
                        rounded_xy(gdf[j], precision)[1]
                            # rounded_xy(gdf[i], precision)[1]
        kept == { i \in 1 .. Len(gdf) : First(i) }
        Kth(k) == CHOOSE i \in kept : Cardinality({ j \in kept : j < i }) = k - 1
    IN  [k \in 1 .. Cardinality(kept) |-> gdf[Kth(k)]]

\* The frame filter_unique_features returns: the first row of each rounded
\* coordinate, without the two temporary columns.
filter_unique_features(gdf, precision) == drop_duplicates(gdf, precision, {})

\* Mutant: only a negative precision fails.
int_raises_negative_only(precision) == precision < 0

\* int(-np.log10(precision)) raises: the logarithm of 0 is -inf and of a
\* negative number nan, and int() converts neither (OverflowError, ValueError).
int_raises(precision) == precision <= 0

\* claims_gdf['rounded_x'] = ..., claims_gdf['rounded_y'] = ...: the frame
\* passed in, after the two assignments.
with_rounded(gdf, precision) ==
    [i \in 1 .. Len(gdf) |->
        [geometry |-> gdf[i].geometry, attr |-> gdf[i].attr,
         rounded_x |-> rounded_xy(gdf[i], precision)[1],
         rounded_y |-> rounded_xy(gdf[i], precision)[2]]]

EmptyHistogram == [k \in FloodCategories |-> 0]

\* Mutant: only flooded claims are counted.
count_claim_flooded_only(histogram, flood_cat) ==
    IF flood_cat > 0 THEN [histogram EXCEPT ![flood_cat] = @ + 1]
    ELSE histogram

\* Mutant: the count of one category, every other count is set back to 0.
count_claim_reset(histogram, flood_cat) ==
    [k \in DOMAIN histogram |->
        IF k = flood_cat THEN histogram[k] + 1 ELSE 0]

\* flood_categories[flood_cat] += 1
count_claim(histogram, flood_cat) ==
    [histogram EXCEPT ![flood_cat] = @ + 1]

\* An accuracy is a fraction <<numerator, denominator>>; this one is 0.
ZeroAccuracy == <<0, 1>>

\* Mutant: the share of the claims that are not covered.
accuracy_of_uncovered(covered, total) ==
    IF total > 0 THEN <<total - covered, total>> ELSE ZeroAccuracy

\* covered_claims / total_claims if total_claims > 0 else 0
accuracy_of(covered, total) ==
    IF total > 0 THEN <<covered, total>> ELSE ZeroAccuracy

ResultDict(total, covered, accuracy, histogram) ==
    [total_claims |-> total, covered_claims |-> covered,
     accuracy |-> accuracy, flood_categories |-> histogram]

\* analyze_flood_accuracy up to the loop: reprojection, cropping,
\* deduplication, the counters, and the early return of an empty batch.
Prepare ==
    /\ pc = "start"
    /\ LET claims_crs == claims_to_crs(claims_gdf, "EPSG:4326", flood_crs)
           claims_cropped == overlay_intersection(claims_crs)
           unique == filter_unique_features(claims_cropped, DefaultPrecision)
       IN  /\ claims_unique' = unique
           /\ total_claims' = Len(unique)
           /\ covered_claims' = 0
           /\ flood_categories' = EmptyHistogram
           /\ idx' = 0
           /\ IF Len(unique) = 0
                THEN /\ result' = << ResultDict(0, 0, ZeroAccuracy, EmptyHistogram) >>
                     /\ pc' = "done"
                ELSE /\ result' = <<>>
                     /\ pc' = "loop"
    /\ UNCHANGED <<raster_vars, call, ncalls, claims_gdf, other_vars>>

\* One iteration of the loop over claims_unique; a category that is no key of
\* the histogram raises KeyError out of analyze_flood_accuracy.
ProcessClaim ==
    /\ pc = "loop"
    /\ idx < total_claims
    /\ LET claim == claims_unique[idx + 1]
           out == check_flood_at_point(claim.geometry, ClaimSearchDistance,
                                       "none")
           flood_cat == out.ret
       IN  /\ call' = PointCall("check_flood_at_point", claim.geometry,
                                ClaimSearchDistance, "none", out)
           /\ ncalls' = ncalls + 1
           /\ IF flood_cat \in DOMAIN flood_categories
                THEN /\ flood_categories' = count_claim(flood_categories,
                                                        flood_cat)
                     /\ covered_claims' = IF flood_cat > 0
                                            THEN covered_claims + 1
                                            ELSE covered_claims
                     /\ idx' = idx + 1
                     /\ pc' = "loop"
                ELSE /\ pc' = "raised"
                     /\ UNCHANGED <<flood_categories, covered_claims, idx>>
    /\ UNCHANGED <<raster_vars, claims_gdf, claims_unique, total_claims,
                   result, other_vars>>

\* After the loop: the accuracy and the returned dict.
Finish ==
    /\ pc = "loop"
    /\ idx = total_claims
    /\ result' = << ResultDict(total_claims, covered_claims,
                               accuracy_of(covered_claims, total_claims),
                               flood_categories) >>
    /\ pc' = "done"
    /\ UNCHANGED <<raster_vars, call, ncalls, claims_gdf, claims_unique, idx,
                   total_claims, covered_claims, flood_categories, other_vars>>

\* A raster is opened and a collection of claims loaded.  The script holds no
\* mapper: search_distance is here the lookup radius its caller has configured
\* for the run, which analyze_flood_accuracy has no parameter to receive.
InitAnalyze ==
    /\ flood_data \in Rasters
    /\ flood_crs \in CRSs
    /\ search_distance \in Radii \cup {ClaimSearchDistance}
    /\ call = NoCall
    /\ ncalls = 0
    /\ claims_gdf \in FeatureCollections
    /\ claims_unique = <<>>
    /\ pc = "start"
    /\ idx = 0
    /\ total_claims = 0
    /\ covered_claims = 0
    /\ flood_categories = EmptyHistogram
    /\ result = <<>>
    /\ NoOther

NextAnalyze == Prepare \/ ProcessClaim \/ Finish

SpecAnalyze == InitAnalyze /\ [][NextAnalyze]_vars

\* ----------------------------------------------------------- deduplication
\* Positions of the frames handed to filter_unique_features: at the default
\* precision <<3, 2>> and <<4, 2>> round to the same coordinate, <<1, 2>> to
\* another, and <<4, 3>> differs from <<4, 2>> in y alone.
DedupPoints == { <<1, 2>>, <<3, 2>>, <<4, 2>>, <<4, 3>> }

DedupFeatures == [geometry : DedupPoints, attr : Attrs]

DedupCollections == UNION { [1 .. n -> DedupFeatures] : n \in 0 .. MaxRows }

\* The precisions passed: negative, zero, and from half the default upwards.
Precisions == (0 - 1) .. MaxPrecision

\* A call of filter_unique_features: the first on the frame loaded, a later
\* one on the frame the call before returned.  claims_gdf is the frame passed,
\* as the call leaves it, and claims_unique the frame returned.
FilterUniqueFeatures ==
    \E precision \in Precisions :
        LET passed == IF dedup.calls = 0 THEN claims_gdf ELSE claims_unique
            unique == filter_unique_features(passed, precision)
        IN  /\ dedup.calls < MaxFilterCalls
            /\ dedup.outcome # "raised"
            /\ IF int_raises(precision)
                 THEN /\ dedup' = [precision |-> precision, passed |-> passed,
                                   outcome |-> "raised", removed |-> 0,
                                   calls |-> dedup.calls + 1]
                      /\ claims_gdf' = passed
                      /\ claims_unique' = <<>>
                 ELSE /\ dedup' = [precision |-> precision, passed |-> passed,
                                   outcome |-> "returned",
                                   removed |-> Len(passed) - Len(unique),
                                   calls |-> dedup.calls + 1]
                      /\ claims_gdf' = with_rounded(passed, precision)
                      /\ claims_unique' = unique
            /\ UNCHANGED <<raster_vars, call, ncalls, pc, idx, total_claims,
                           covered_claims, flood_categories, result, reclass,
                           history, session_vars>>

\* A frame of features is loaded; no raster is involved.
InitDedup ==
    /\ flood_data = [c \in Cells |-> 0]
    /\ flood_crs = "EPSG:4326"
    /\ search_distance = DefaultSearchDistance
    /\ call = NoCall
    /\ ncalls = 0
    /\ claims_gdf \in DedupCollections
    /\ claims_unique = <<>>
    /\ pc = "idle"
    /\ idx = 0
    /\ total_claims = 0
    /\ covered_claims = 0
    /\ flood_categories = EmptyHistogram
    /\ result = <<>>
    /\ NoOther

NextDedup == FilterUniqueFeatures

SpecDedup == InitDedup /\ [][NextDedup]_vars

\* ------------------------------------------------- the last call, for claims
PointResolvers == {"check_flood_at_point", "get_flood_category_at_point"}

\* The position the last call looked up: its point in the raster's reference.
CallPosition == to_crs(call.point, "EPSG:4326", flood_crs)

CallCell == rowcol(CallPosition[1], CallPosition[2])

CallInside == InBounds(CallCell[1], CallCell[2])

\* Cells whose centre the last call's buffer covers.
CallBuffer == { c \in Cells : InBuffer(c, CallPosition, call.search) }

PointResolved == call.fn \in PointResolvers /\ call.fault = "none"

C2_BufferFallback ==
    (PointResolved /\ (~CallInside \/ flood_data[CallCell] \in {0, NoData}))
        => /\ call.outcome = "returned"
           /\ call.ret = Max({0} \cup { flood_data[c] : c \in
                                 { b \in CallBuffer : flood_data[b] # NoData } })

\* C3. No-data is excluded from the neighbourhood maximum: for a point on a
\* no-data cell whose buffer covers that cell and neighbouring cells, all of
\* categories 1..4, the result is the maximum of the neighbouring categories.
C3_NoDataExcluded ==
    LET neighbours == CallBuffer \ {CallCell}
    IN  (/\ PointResolved
         /\ CallInside
         /\ flood_data[CallCell] = NoData
         /\ CallCell \in CallBuffer
         /\ neighbours # {}
         /\ \A c \in neighbours : flood_data[c] \in 1 .. 4)
            => call.ret = Max({ flood_data[c] : c \in neighbours })

\* C4. Category range: the category a resolver returns is in {0,1,2,3,4}.
C4_CategoryRange ==
    (call.fn # "none" /\ call.outcome = "returned") => call.ret \in 0 .. 4

\* C5. Total resolution: a point resolver never raises to its caller, and
\* returns 0 when the reprojection or the buffer construction fails.
C5_TotalResolution ==
    (call.fn \in PointResolvers)
        => /\ call.outcome = "returned"
           /\ (call.fault \in {"to_crs", "buffer"} => call.ret = 0)

LineResolved == call.fn = "get_max_flood_for_line"

\* m is the point of the line at half its arc length.
ArcMid(coords, m) ==
    \E i \in 1 .. (Len(coords) - 1) :
        /\ SegLen(coords[i], m) + SegLen(m, coords[i + 1])
               = SegLen(coords[i], coords[i + 1])
        /\ 2 * (Length(SubSeq(coords, 1, i)) + SegLen(coords[i], m))
               = Length(coords)

\* C6. Line maximum rule: for a LineString the line resolver resolves exactly
\* the first vertex, the point at half the arc length and the last vertex with
\* the point resolver, and returns the maximum of the three categories.
C6_LineMaximum ==
    (LineResolved /\ call.geom_type = "LineString")
        => /\ Len(call.samples) = 3
           /\ Len(call.cats) = 3
           /\ call.samples[1] = call.coords[1]
           /\ ArcMid(call.coords, call.samples[2])
           /\ call.samples[3] = call.coords[Len(call.coords)]
           /\ \A i \in 1 .. 3 :
                 /\ call.cats[i]
                      = get_flood_category_at_point(call.samples[i], "none").ret
                 /\ call.cats[i] <= call.ret
           /\ \E i \in 1 .. 3 : call.cats[i] = call.ret

\* C6 witness: the three samples resolve to 0, 3, 1 and the line to 3.
C6_Witness ==
    /\ LineResolved
    /\ call.geom_type = "LineString"
    /\ call.cats = <<0, 3, 1>>
    /\ call.ret = 3

\* C7. A geometry that is not a LineString yields category 0 and no point is
\* resolved for it.
C7_NonLineIsZero ==
    (LineResolved /\ call.geom_type # "LineString")
        => /\ call.ret = 0
           /\ call.samples = <<>>
           /\ call.cats = <<>>

\* C7 witness: a multi-line lying on cells of category 4 resolved to 0.
C7_Witness ==
    /\ LineResolved
    /\ call.geom_type = "MultiLineString"
    /\ \A c \in Cells : flood_data[c] = 4
    /\ flood_crs = "EPSG:4326"
    /\ call.coords = <<(<<2, flood_transform.f - 1>>), (<<6, flood_transform.f - 1>>)>>
    /\ call.ret = 0

Running == pc \in {"loop", "raised", "done"}

\* C8. Histogram conservation: after k claims have been processed the five
\* counts sum to k; in every returned result they sum to total_claims, and
\* covered_claims + histogram[0] = total_claims.
C8_HistogramConservation ==
    /\ Running => SumOver(flood_categories, FloodCategories) = idx
    /\ pc = "done" =>
          LET r == result[1]
          IN  /\ SumOver(r.flood_categories, FloodCategories) = r.total_claims
              /\ r.covered_claims + r.flood_categories[0] = r.total_claims
              /\ r.total_claims = Len(claims_unique)

\* C8 witness: a run returned with two claims counted, one of them covered.
C8_Witness ==
    /\ pc = "done"
    /\ result[1].total_claims = 2
    /\ result[1].covered_claims = 1
    /\ result[1].flood_categories[0] = 1

\* C9. Batch completion: whatever the point resolver returns for a claim, the
\* aggregation loop does not raise.
C9_BatchCompletion == pc # "raised"

\* No claim lies in the raster's footprint once reprojected.
NoClaimInScope ==
    \A i \in 1 .. Len(claims_gdf) :
        ~InFootprint(to_crs(claims_gdf[i].geometry, "EPSG:4326", flood_crs))

\* C10. Empty-batch well-formedness: when no claim remains after cropping and
\* deduplication the run returns total 0, covered 0, accuracy 0 and an
\* all-zero histogram, without resolving a point and without raising.
C10_EmptyBatch ==
    (Running /\ NoClaimInScope)
        => /\ pc = "done"
           /\ result = << [total_claims |-> 0, covered_claims |-> 0,
                           accuracy |-> <<0, 1>>,
                           flood_categories |-> [k \in 0 .. 4 |-> 0]] >>
           /\ ncalls = 0
           /\ call.fn = "none"

\* C10 witness: two claims, both outside the footprint, and the zero result.
C10_Witness ==
    /\ pc = "done"
    /\ Len(claims_gdf) = 2
    /\ NoClaimInScope
    /\ result[1].total_claims = 0

\* -------------------------------------------------------- reclassification
\* Depths and thresholds are integers, in units of 0.1 m.
DefaultThresholds == <<1, 2, 5, 10>>

Depths == (0 .. MaxDepth) \cup {SrcNoData}

\* src.read(1) of the depth raster, cell by cell.
DepthRasters == [1 .. DepthCells -> Depths]

\* The lists passed as depth_thresholds: of 3, 4 and 5 thresholds, in any order.
ThresholdLists == UNION { [1 .. n -> 1 .. MaxThreshold] : n \in 3 .. 5 }

\* Mutant: only a list that is too short is refused.
thresholds_malformed_short(depth_thresholds) == Len(depth_thresholds) < 4

\* len(depth_thresholds) != 4
thresholds_malformed(depth_thresholds) == Len(depth_thresholds) # 4

\* Mutant: the comparisons are strict.
classify_strict(d, t) ==
    LET c1 == IF d > t[1] THEN 1 ELSE 0
        c2 == IF d > t[2] THEN 2 ELSE c1
        c3 == IF d > t[3] THEN 3 ELSE c2
    IN  IF d > t[4] THEN 4 ELSE c3

\* The four np.where steps on one cell, each overriding the one before.
classify(d, t) ==
    LET c1 == IF d >= t[1] THEN 1 ELSE 0
        c2 == IF d >= t[2] THEN 2 ELSE c1
        c3 == IF d >= t[3] THEN 3 ELSE c2
    IN  IF d >= t[4] THEN 4 ELSE c3

\* reclassify_flood_map(input_path, output_path, depth_thresholds): the check
\* of the thresholds, then the raster opened, classified, written with
\* nodata=255 declared, and the preview drawn.
ReclassifyFloodMap ==
    /\ reclass.outcome = "none"
    /\ LET thresholds == IF reclass.given THEN reclass.depth_thresholds
                         ELSE DefaultThresholds
       IN  IF thresholds_malformed(thresholds)
             THEN reclass' = [reclass EXCEPT !.outcome = "raised",
                                             !.thresholds = thresholds]
             ELSE reclass' =
                    [reclass EXCEPT
                       !.outcome = "returned",
                       !.thresholds = thresholds,
                       !.opened = TRUE,
                       !.classified = [i \in 1 .. Len(reclass.data) |->
                                         classify(reclass.data[i], thresholds)],
                       !.nodata = NoData,
                       !.written = TRUE,
                       !.preview = TRUE]
    /\ UNCHANGED <<raster_vars, call, ncalls, analysis_vars, dedup, history,
                   session_vars>>

\* A depth raster lies at input_path; the thresholds are passed or omitted.
InitReclass ==
    /\ flood_data = [c \in Cells |-> 0]
    /\ flood_crs = "EPSG:4326"
    /\ search_distance = DefaultSearchDistance
    /\ call = NoCall
    /\ ncalls = 0
    /\ NoAnalysis
    /\ dedup = NoDedup
    /\ history = <<>>
    /\ mapper = NoMapper
    /\ partial = NoPartial
    /\ runs = <<>>
    /\ \E data \in DepthRasters :
          \/ reclass = [NoReclass EXCEPT !.data = data]
          \/ \E list \in ThresholdLists :
                reclass = [NoReclass EXCEPT !.data = data, !.given = TRUE,
                                            !.depth_thresholds = list]

NextReclass == ReclassifyFloodMap

SpecReclass == InitReclass /\ [][NextReclass]_vars

Reclassified == reclass.outcome = "returned"

\* C18. A threshold list whose length is not 4 makes reclassify_flood_map
\* raise before the input raster is opened and before an output file or a
\* preview is written; with the thresholds omitted [0.1, 0.2, 0.5, 1.0] are
\* used.
C18_ThresholdCount ==
    /\ (reclass.outcome # "none" /\ reclass.given
            /\ Len(reclass.depth_thresholds) # 4)
          => /\ reclass.outcome = "raised"
             /\ ~reclass.opened
             /\ ~reclass.written
             /\ ~reclass.preview
             /\ reclass.classified = <<>>
    /\ (reclass.outcome # "none" /\ ~reclass.given)
          => /\ reclass.outcome = "returned"
             /\ reclass.thresholds = <<1, 2, 5, 10>>

\* C18 witness: five thresholds were passed and the call raised.
C18_Witness ==
    /\ reclass.outcome = "raised"
    /\ reclass.given
    /\ Len(reclass.depth_thresholds) = 5
    /\ ~reclass.opened

RepeatPoints == { <<1, 2>>, <<5, 2>> }

RepeatCollections == [1 .. 2 -> [geometry : RepeatPoints, attr : {"auto"}]]

\* The radii passed to check_flood_at_point: its default and the aggregator's.
RepeatRadii == {DefaultSearchDistance, ClaimSearchDistance}

\* What a resolution leaves in the session's record: the call, the
\* coordinates and the raster it saw, and what it returned.
Resolution(fn, k, point, search, out) ==
    [fn |-> fn, k |-> k, point |-> point, search |-> search,
     outcome |-> out.outcome, ret |-> out.ret, data |-> flood_data]

\* Mutant: the geometry is reprojected in place.
ResolveInPlace ==
    \E k \in 1 .. Len(claims_gdf), fn \in PointResolvers, radius \in RepeatRadii :
        LET point == claims_gdf[k].geometry
            search == IF fn = "check_flood_at_point" THEN radius
                      ELSE search_distance
            out == IF fn = "check_flood_at_point"
                     THEN check_flood_at_point(point, search, "none")
                     ELSE get_flood_category_at_point(point, "none")
        IN  /\ ncalls < MaxRepeat
            /\ ncalls' = ncalls + 1
            /\ call' = PointCall(fn, point, search, "none", out)
            /\ history' = Append(history, Resolution(fn, k, point, search, out))
            /\ claims_gdf' = [claims_gdf EXCEPT ![k].geometry =
                                 to_crs(point, "EPSG:4326", flood_crs)]
            /\ UNCHANGED <<raster_vars, claims_unique, pc, idx, total_claims,
                           covered_claims, flood_categories, result, dedup,
                           reclass, session_vars>>

\* One resolution of geometry k of the session.  The resolvers build a frame
\* of their own from the point and read the raster; they assign to neither.
Resolve ==
    \E k \in 1 .. Len(claims_gdf), fn \in PointResolvers, radius \in RepeatRadii :
        LET point == claims_gdf[k].geometry
            search == IF fn = "check_flood_at_point" THEN radius
                      ELSE search_distance
            out == IF fn = "check_flood_at_point"
                     THEN check_flood_at_point(point, search, "none")
                     ELSE get_flood_category_at_point(point, "none")
        IN  /\ ncalls < MaxRepeat
            /\ ncalls' = ncalls + 1
            /\ call' = PointCall(fn, point, search, "none", out)
            /\ history' = Append(history, Resolution(fn, k, point, search, out))
            /\ UNCHANGED <<raster_vars, analysis_vars, dedup, reclass,
                           session_vars>>

InitRepeat ==
    /\ InitRaster
    /\ claims_gdf \in RepeatCollections
    /\ claims_unique = <<>>
    /\ pc = "idle"
    /\ idx = 0
    /\ total_claims = 0
    /\ covered_claims = 0
    /\ flood_categories = EmptyHistogram
    /\ result = <<>>
    /\ NoOther

NextRepeat == Resolve

SpecRepeat == InitRepeat /\ [][NextRepeat]_vars

\* Two resolutions of the session were the same call on the same geometry.
SameResolution(a, b) == a.fn = b.fn /\ a.k = b.k /\ a.search = b.search

WithinBounds(i) ==
    LET p == to_crs(claims_gdf[i].geometry, "EPSG:4326", flood_crs)
    IN  /\ 0 <= p[1] /\ p[1] <= 3 * GridW
        /\ 0 <= p[2] /\ p[2] <= 3 * GridH

\* The rounded coordinate of claim i in the raster's reference.
RoundedKey(i) ==
    LET p == to_crs(claims_gdf[i].geometry, "EPSG:4326", flood_crs)
    IN  <<round(p[1], DefaultPrecision), round(p[2], DefaultPrecision)>>

\* The claims within the bounds that no earlier claim within the bounds
\* duplicates.
Survivors ==
    { i \in 1 .. Len(claims_gdf) :
        /\ WithinBounds(i)
        /\ \A j \in 1 .. (i - 1) :
              WithinBounds(j) => RoundedKey(j) # RoundedKey(i) }

KthSurvivor(k) ==
    CHOOSE i \in Survivors : Cardinality({ j \in Survivors : j < i }) = k - 1

\* C11. Out-of-footprint exclusion: the features the run counts are exactly
\* the features within the raster's bounds that survive deduplication, each
\* once and in the input's order; a feature outside the bounds is in no count.
C11_FootprintExclusion ==
    Running =>
        /\ Len(claims_unique) = Cardinality(Survivors)
        /\ total_claims = Cardinality(Survivors)
        /\ \A k \in 1 .. Len(claims_unique) :
              /\ claims_unique[k].geometry
                   = to_crs(claims_gdf[KthSurvivor(k)].geometry, "EPSG:4326",
                            flood_crs)
              /\ claims_unique[k].attr = claims_gdf[KthSurvivor(k)].attr
        /\ idx <= Cardinality(Survivors)
        /\ pc = "done" =>
              /\ result[1].total_claims = Cardinality(Survivors)
              /\ SumOver(result[1].flood_categories, FloodCategories)
                   = Cardinality(Survivors)
              /\ result[1].covered_claims <= Cardinality(Survivors)

\* C11 witness: of two claims one lies left of the raster and one within it;
\* the run returned with one claim counted.
C11_Witness ==
    /\ pc = "done"
    /\ Len(claims_gdf) = 2
    /\ ~WithinBounds(1)
    /\ WithinBounds(2)
    /\ result[1].total_claims = 1
    /\ SumOver(result[1].flood_categories, FloodCategories) = 1

\* The claims of the run that the resolver finds flooded.
FloodedClaims ==
    { k \in 1 .. Len(claims_unique) :
        check_flood_at_point(claims_unique[k].geometry, ClaimSearchDistance,
                             "none").ret > 0 }

\* C12. Accuracy definition: in a returned result covered_claims is the number
\* of counted features whose resolved category is greater than 0, accuracy is
\* covered_claims / total_claims when total_claims > 0, and
\* 0 <= covered_claims <= total_claims, 0 <= accuracy <= 1.
C12_AccuracyDefinition ==
    pc = "done" =>
        LET r == result[1]
        IN  /\ r.covered_claims = Cardinality(FloodedClaims)
            /\ r.total_claims > 0
                  => r.accuracy = <<r.covered_claims, r.total_claims>>
            /\ 0 <= r.covered_claims
            /\ r.covered_claims <= r.total_claims
            /\ 0 <= r.accuracy[1]
            /\ r.accuracy[1] <= r.accuracy[2]
            /\ r.accuracy[2] > 0

\* C12 witness: a run over two claims, of which the resolver finds the second
\* flooded, returned the accuracy 1/2.
C12_Witness ==
    /\ pc = "done"
    /\ FloodedClaims = {2}
    /\ result[1].total_claims = 2
    /\ result[1].covered_claims = 1
    /\ result[1].accuracy = <<1, 2>>

\* C13. The buffer radius of the lookups of a run is the radius configured
\* for that run: every resolution the aggregator makes uses it.
C13_RadiusPerCall ==
    (Running /\ call.fn = "check_flood_at_point")
        => call.search = search_distance

Filtered == dedup.outcome = "returned"

\* The rounded coordinate of row i of the frame passed to the last call.
PassedKey(i) == rounded_xy(dedup.passed[i], dedup.precision)

\* The rows of the frame passed that no earlier row duplicates.
FirstRows ==
    { i \in 1 .. Len(dedup.passed) :
        \A j \in 1 .. (i - 1) : PassedKey(j) # PassedKey(i) }

KthFirstRow(k) ==
    CHOOSE i \in FirstRows : Cardinality({ j \in FirstRows : j < i }) = k - 1

\* C14. Deduplication keeps first occurrences: the frame returned holds one
\* row per distinct rounded (x, y) of the frame passed, namely the first row
\* with that coordinate, in the order of the frame passed; rows of equal
\* rounded coordinate and different attributes are duplicates; the count
\* removed is the size passed minus the size returned.
C14_KeepsFirst ==
    Filtered =>
        /\ Len(claims_unique)
             = Cardinality({ PassedKey(i) : i \in 1 .. Len(dedup.passed) })
        /\ Len(claims_unique) = Cardinality(FirstRows)
        /\ \A k \in 1 .. Len(claims_unique) :
              claims_unique[k] = dedup.passed[KthFirstRow(k)]
        /\ dedup.removed = Len(dedup.passed) - Len(claims_unique)

\* C14 witness: of three rows the third has the rounded coordinate of the
\* first and another attribute; the first two are returned, one is removed.
C14_Witness ==
    /\ Filtered
    /\ Len(dedup.passed) = 3
    /\ PassedKey(1) = PassedKey(3)
    /\ PassedKey(1) # PassedKey(2)
    /\ dedup.passed[1].attr # dedup.passed[3].attr
    /\ claims_unique = << dedup.passed[1], dedup.passed[2] >>
    /\ dedup.removed = 1

\* C15. Dedup safety and idempotence: a frame whose rounded coordinates are
\* pairwise distinct is returned as it is, with the same fields and zero
\* removed; the frame returned has pairwise distinct rounded coordinates, so
\* that filtering it again changes nothing; N >= 1 rows of one rounded
\* coordinate give 1 row with N - 1 removed.
C15_DedupSafety ==
    Filtered =>
        LET n == Len(dedup.passed)
            distinct == \A i, j \in 1 .. n : i # j => PassedKey(i) # PassedKey(j)
            same == \A i, j \in 1 .. n : PassedKey(i) = PassedKey(j)
        IN  /\ distinct =>
                  /\ claims_unique = dedup.passed
                  /\ \A k \in 1 .. n :
                        DOMAIN claims_unique[k] = DOMAIN dedup.passed[k]
                  /\ dedup.removed = 0
            /\ \A i, j \in 1 .. Len(claims_unique) :
                  i # j => rounded_xy(claims_unique[i], dedup.precision)
                             # rounded_xy(claims_unique[j], dedup.precision)
            /\ (n >= 1 /\ same) =>
                  /\ Len(claims_unique) = 1
                  /\ dedup.removed = n - 1

\* C15 witness: the frame a first call returned, of two rows differing in y
\* alone, was filtered again at the default precision and came back as it was.
C15_Witness ==
    /\ Filtered
    /\ dedup.calls = 2
    /\ dedup.precision = DefaultPrecision
    /\ Len(dedup.passed) = 2
    /\ dedup.passed[1].geometry = <<4, 2>>
    /\ dedup.passed[2].geometry = <<4, 3>>
    /\ claims_unique = dedup.passed
    /\ dedup.removed = 0

\* C16. Read-only inputs: filter_unique_features leaves the frame passed to
\* it as it was: the same rows, with the same fields.
C16_ReadOnlyInput ==
    Filtered => claims_gdf = dedup.passed

\* C17. A precision of 0 or less is rejected: the call raises, returns no
\* frame, and has done no work on the frame passed when it raises.
C17_PrecisionRejected ==
    (dedup.outcome # "none" /\ dedup.precision <= 0)
        => /\ dedup.outcome = "raised"
           /\ claims_unique = <<>>
           /\ claims_gdf = dedup.passed
           /\ dedup.removed = 0

\* C17 witness: a frame of three rows was passed with precision 0.
C17_Witness ==
    /\ dedup.outcome = "raised"
    /\ dedup.precision = 0
    /\ Len(dedup.passed) = 3

\* C22. Bounds check before cell read: a point resolver reads the exact cell
\* only when 0 <= row < height and 0 <= col < width; for a (row, col) outside
\* those bounds, negative indices included, it reads no cell and takes the
\* buffer fallback.
C22_BoundsCheck ==
    PointResolved =>
        LET row == CallCell[1]
            col == CallCell[2]
            within == 0 <= row /\ row < GridH /\ 0 <= col /\ col < GridW
        IN  /\ call.reads \subseteq (IF within THEN {CallCell} ELSE {})
            /\ ~within => /\ call.path \in {"buffer", "except"}
                          /\ call.masked = Overlaps(CallPosition, call.search)

\* C22 witness: a point one unit left of the raster, at column -1, was
\* resolved from its buffer to the category 4 of the first cell.
C22_Witness ==
    /\ call.fn = "check_flood_at_point"
    /\ CallCell[2] = 0 - 1
    /\ call.reads = {}
    /\ call.path = "buffer"
    /\ flood_data[<<0, GridW - 1>>] = 1
    /\ call.ret = 4

\* The coordinate of row i of the frame passed, rounded to the precision
\* passed.
PrecisionKey(i) ==
    << round(dedup.passed[i].geometry[1], dedup.precision),
       round(dedup.passed[i].geometry[2], dedup.precision) >>

\* C23. Deduplication rounds to the precision given: for a precision p > 0
\* two rows are merged exactly when their x and y round to the same multiple
\* of p, for p = 1e-5 and for a p that is no power of ten.
C23_RoundsToPrecision ==
    Filtered =>
        /\ Len(claims_unique)
             = Cardinality({ PrecisionKey(i) : i \in 1 .. Len(dedup.passed) })
        /\ \A i \in 1 .. Len(dedup.passed) :
              \E k \in 1 .. Len(claims_unique) :
                  /\ round(claims_unique[k].geometry[1], dedup.precision)
                       = PrecisionKey(i)[1]
                  /\ round(claims_unique[k].geometry[2], dedup.precision)
                       = PrecisionKey(i)[2]

\* The claim the last resolution of the run was made for.
CallClaim == IF pc = "raised" THEN idx + 1 ELSE idx

\* C24. Single reprojection: the position at which the aggregator looks up a
\* feature's cell and buffer is the feature's position brought once from its
\* source reference into the raster's reference.
C24_SingleReprojection ==
    (Running /\ call.fn = "check_flood_at_point")
        => CallPosition
             = to_crs(claims_gdf[KthSurvivor(CallClaim)].geometry, "EPSG:4326",
                      flood_crs)

\* C25. Resolver agreement: on the same raster, point and search radius
\* check_flood_at_point and get_flood_category_at_point return the same
\* category.
C25_ResolverAgreement ==
    (PointResolved /\ call.search = search_distance)
        => /\ check_flood_at_point(call.point, call.search, "none").ret
                = call.ret
           /\ get_flood_category_at_point(call.point, "none").ret = call.ret

\* C28. The reclassified output respects the raster contract: every cell
\* written is in 0..4 or is the declared no-data value 255, and a cell holding
\* the source's no-data sentinel is written as 255.
C28_OutputContract ==
    Reclassified =>
        \A i \in 1 .. Len(reclass.classified) :
            /\ reclass.classified[i] \in (0 .. 4) \cup {255}
            /\ reclass.data[i] = SrcNoData
                  => reclass.classified[i] = reclass.nodata

\* ------------------------------------------------- FloodImpactMapper.run
\* The rasters of the runs: the first cell in the deepest category, every
\* other cell dry, in the deepest category or empty.
RunRasters ==
    { d \in Rasters : /\ d[<<0, 0>>] = 4
                      /\ \A c \in Cells : d[c] \in {0, 4, NoData} }

\* Road segments OpenStreetMap returns: two-vertex lines from the origin side.
RoadLines == { l \in LineStrings : Len(l) = 2 /\ l[1][1] = 0 /\ l[2][1] \in {2, 8} }

RoadNetworks == UNION { [1 .. n -> RoadLines] : n \in 1 .. MaxFeatures }

\* Facilities OpenStreetMap returns, after the filter on Point geometries.
InfrastructurePoints ==
    { p \in Points : p[1] \in {1, 7} /\ p[2] = flood_transform.f - 1 }

Infrastructures == UNION { [1 .. n -> InfrastructurePoints] : n \in 1 .. MaxFeatures }

Consumers ==
    {"create_map", "create_static_maps", "export_data", "create_scientific_map"}

\* Mutant: the interactive map is drawn before the categories are assigned.
RunOrder_map_first ==
    << "fetch_road_network", "fetch_infrastructure", "create_map",
       "assign_flood_categories", "create_static_maps", "export_data",
       "create_scientific_map" >>

\* The calls of run, in the order of its body.
RunOrder ==
    << "fetch_road_network", "fetch_infrastructure", "assign_flood_categories",
       "create_map", "create_static_maps", "export_data",
       "create_scientific_map" >>

\* The frames in the order a method visits them.
FrameOrder(fn) ==
    IF fn = "create_scientific_map" THEN << "road_gdf", "infrastructure_gdf" >>
    ELSE << "infrastructure_gdf", "road_gdf" >>

\* hasattr(self, name) and not self.<name>.empty
Usable(frame) == frame.attr /\ frame.geometry # <<>>

\* What a consumer does with a frame: it passes it over, reads the column of
\* every row, or fails on the column that is not there.  to_file writes the
\* frame with the columns it has.
access(fn, frame) ==
    IF ~Usable(frame) THEN "skipped"
    ELSE IF frame.column THEN "read"
    ELSE IF fn = "export_data" THEN "written"
    ELSE "raised"

\* A line of the log: the method, the frame it came to, whether the mapper had
\* the attribute and how many rows it held, what was done and with which
\* values of the column.
Entry(fn, name, did, values) ==
    [fn |-> fn, frame |-> name, attr |-> mapper[name].attr,
     rows |-> Len(mapper[name].geometry), did |-> did, values |-> values]

\* fn is the method called now: by run at its position, or by a script on a
\* mapper just constructed.
Called(fn) ==
    \/ mapper.pc = "running" /\ RunOrder[mapper.step] = fn
    \/ mapper.pc = "constructed" /\ fn \in Consumers /\ mapper.direct < MaxDirect

\* The method returns to its caller.
Return(m) ==
    [m EXCEPT
       !.pc = IF mapper.pc = "running" /\ mapper.step = Len(RunOrder)
                THEN "done" ELSE @,
       !.step = IF mapper.pc = "running" /\ mapper.step < Len(RunOrder)
                  THEN @ + 1 ELSE @,
       !.direct = IF mapper.pc = "running" THEN @ ELSE @ + 1]

\* run is entered on a mapper just constructed.
Run ==
    /\ mapper.pc = "constructed"
    /\ mapper' = [mapper EXCEPT !.pc = "running", !.step = 1]
    /\ UNCHANGED <<raster_vars, call, ncalls, analysis_vars, dedup, reclass,
                   history, partial, runs>>

\* fetch_road_network: the edges of the graph, or, after any exception, the
\* empty frame.
FetchRoadNetwork ==
    \E edges \in RoadNetworks \cup {<<>>} :
        /\ Called("fetch_road_network")
        /\ mapper' = Return(
              [mapper EXCEPT
                 !.road_gdf = [NoFrame EXCEPT !.attr = TRUE, !.geometry = edges],
                 !.log = Append(@, Entry("fetch_road_network", "road_gdf",
                                         IF edges = <<>> THEN "failed"
                                         ELSE "fetched", <<>>))])
        /\ UNCHANGED <<raster_vars, call, ncalls, analysis_vars, dedup,
                       reclass, history, partial, runs>>

\* fetch_infrastructure: the points of the queries that succeeded, or the
\* empty frame when every query failed or found nothing.
FetchInfrastructure ==
    \E pois \in Infrastructures \cup {<<>>} :
        /\ Called("fetch_infrastructure")
        /\ mapper' = Return(
              [mapper EXCEPT
                 !.infrastructure_gdf =
                     [NoFrame EXCEPT !.attr = TRUE, !.geometry = pois],
                 !.log = Append(@, Entry("fetch_infrastructure",
                                         "infrastructure_gdf",
                                         IF pois = <<>> THEN "failed"
                                         ELSE "fetched", <<>>))])
        /\ UNCHANGED <<raster_vars, call, ncalls, analysis_vars, dedup,
                       reclass, history, partial, runs>>

\* assign_flood_categories: the column is set on each frame that is there and
\* has rows, first the infrastructure and then the roads.
AssignFloodCategories ==
    /\ Called("assign_flood_categories")
    /\ LET infra == mapper.infrastructure_gdf
           road == mapper.road_gdf
           infra_cats == [i \in 1 .. Len(infra.geometry) |->
                             get_flood_category_at_point(infra.geometry[i],
                                                         "none").ret]
           road_cats == [i \in 1 .. Len(road.geometry) |->
                            get_max_flood_for_line("LineString",
                                                   road.geometry[i]).ret]
           assigned ==
               [mapper EXCEPT
                  !.infrastructure_gdf =
                      IF Usable(infra)
                        THEN [infra EXCEPT !.column = TRUE,
                                           !.flood_category = infra_cats]
                        ELSE infra,
                  !.road_gdf =
                      IF Usable(road)
                        THEN [road EXCEPT !.column = TRUE,
                                          !.flood_category = road_cats]
                        ELSE road,
                  !.log = @ \o
                      << Entry("assign_flood_categories", "infrastructure_gdf",
                               IF Usable(infra) THEN "assigned" ELSE "skipped",
                               <<>>),
                         Entry("assign_flood_categories", "road_gdf",
                               IF Usable(road) THEN "assigned" ELSE "skipped",
                               <<>>) >>]
       IN  mapper' = Return(assigned)
    /\ UNCHANGED <<raster_vars, call, ncalls, analysis_vars, dedup, reclass,
                   history, partial, runs>>

\* create_map, create_static_maps, export_data and create_scientific_map: each
\* visits its two frames in turn; an exception ends the method and its caller.
Consume ==
    \E fn \in Consumers :
        LET first == FrameOrder(fn)[1]
            second == FrameOrder(fn)[2]
            did1 == access(fn, mapper[first])
            did2 == access(fn, mapper[second])
            visits == << Entry(fn, first, did1,
                               IF did1 = "skipped" THEN <<>>
                               ELSE mapper[first].flood_category) >>
                      \o IF did1 = "raised" THEN <<>>
                         ELSE << Entry(fn, second, did2,
                                       IF did2 = "skipped" THEN <<>>
                                       ELSE mapper[second].flood_category) >>
            logged == [mapper EXCEPT !.log = @ \o visits]
        IN  /\ Called(fn)
            /\ mapper' = IF "raised" \in {did1, did2}
                           THEN [logged EXCEPT !.pc = "raised"]
                           ELSE Return(logged)
            /\ UNCHANGED <<raster_vars, call, ncalls, analysis_vars, dedup,
                           reclass, history, partial, runs>>

InitRun ==
    /\ flood_data \in RunRasters
    /\ flood_crs \in CRSs
    /\ search_distance = DefaultSearchDistance
    /\ call = NoCall
    /\ ncalls = 0
    /\ NoAnalysis
    /\ dedup = NoDedup
    /\ reclass = NoReclass
    /\ history = <<>>
    /\ mapper = [NoMapper EXCEPT !.pc = "constructed"]
    /\ partial = NoPartial
    /\ runs = <<>>

NextRun ==
    \/ Run
    \/ FetchRoadNetwork
    \/ FetchInfrastructure
    \/ AssignFloodCategories
    \/ Consume

\* A call of run that has begun goes on: run is plain sequential code.
Proceed == mapper.pc = "running" /\ NextRun

SpecRun == InitRun /\ [][NextRun]_vars /\ WF_vars(Proceed)

\* C27. In every execution of run no consumer fails on a missing column, each
\* read of flood_category by a consumer comes after assign_flood_categories
\* set the column of that frame and returns the values assigned, a frame that
\* is empty or was never fetched is passed over by every consumer, and a run
\* that has begun reaches its end.
ConsumerVisit(e) == e.fn \in Consumers

C27_Safe ==
    /\ mapper.pc # "raised"
    /\ \A i \in 1 .. Len(mapper.log) :
          LET e == mapper.log[i]
          IN  ConsumerVisit(e) =>
                /\ e.did \in {"read", "skipped"}
                /\ e.did = "read" =>
                      \E j \in 1 .. (i - 1) :
                          /\ mapper.log[j].fn = "assign_flood_categories"
                          /\ mapper.log[j].frame = e.frame
                          /\ mapper.log[j].did = "assigned"
                          /\ mapper.log[j].rows = Len(e.values)
                /\ e.did = "skipped" <=> (~e.attr \/ e.rows = 0)

C27_AssignedBeforeConsumed ==
    /\ [](C27_Safe)
    /\ (mapper.pc = "running") ~> (mapper.pc = "done")

\* C27 witness: the road fetch failed and two facilities were fetched; the run
\* is over, the four consumers read the facilities' categories and passed
\* the roads over.
C27_Witness ==
    /\ mapper.pc = "done"
    /\ mapper.road_gdf.attr /\ mapper.road_gdf.geometry = <<>>
    /\ Len(mapper.infrastructure_gdf.geometry) = 2
    /\ mapper.infrastructure_gdf.flood_category = <<4, 0>>
    /\ \A fn \in Consumers :
          /\ \E i \in 1 .. Len(mapper.log) :
                /\ mapper.log[i].fn = fn
                /\ mapper.log[i].frame = "infrastructure_gdf"
                /\ mapper.log[i].did = "read"
                /\ mapper.log[i].values = <<4, 0>>
          /\ \E i \in 1 .. Len(mapper.log) :
                /\ mapper.log[i].fn = fn
                /\ mapper.log[i].frame = "road_gdf"
                /\ mapper.log[i].did = "skipped"
                /\ mapper.log[i].attr

\* ------------------------------------ the loop of analyze_flood_accuracy,
\* ------------------------------------ in any order and shared out
\* The counters of a worker that has taken no claim.
EmptyPart ==
    [histogram |-> EmptyHistogram, covered |-> 0, total |-> 0,
     outcome |-> "idle"]

\* The body of the loop on a worker's own counters: the lookup of the claim,
\* the count of its category, the count of the covered claims.
accumulate(part, claim) ==
    LET flood_cat == check_flood_at_point(claim.geometry, ClaimSearchDistance,
                                          "none").ret
    IN  IF flood_cat \in DOMAIN part.histogram
          THEN [histogram |-> count_claim(part.histogram, flood_cat),
                covered |-> IF flood_cat > 0 THEN part.covered + 1
                            ELSE part.covered,
                total |-> part.total + 1,
                outcome |-> "counted"]
          ELSE [part EXCEPT !.outcome = "raised"]

\* Mutant: a worker counts into a fresh histogram at each claim.
AccumulateLost ==
    \E w \in 1 .. MaxWorkers, k \in 1 .. Len(claims_unique) :
        /\ pc \in {"done", "raised"}
        /\ k \notin SeqRange(partial.taken)
        /\ partial.parts[w].outcome # "raised"
        /\ partial' =
              [taken |-> Append(partial.taken, k),
               parts |-> [partial.parts EXCEPT ![w] =
                            accumulate([@ EXCEPT !.histogram = EmptyHistogram],
                                       claims_unique[k])]]
        /\ UNCHANGED <<raster_vars, call, ncalls, analysis_vars, dedup,
                       reclass, history, mapper, runs>>

\* After the sequential loop has ended, the same frame is accumulated again:
\* some worker takes some claim not yet taken and runs the body of the loop on
\* it.  A worker whose body raised takes no further claim.
Accumulate ==
    \E w \in 1 .. MaxWorkers, k \in 1 .. Len(claims_unique) :
        /\ pc \in {"done", "raised"}
        /\ k \notin SeqRange(partial.taken)
        /\ partial.parts[w].outcome # "raised"
        /\ partial' =
              [taken |-> Append(partial.taken, k),
               parts |-> [partial.parts EXCEPT ![w] =
                            accumulate(@, claims_unique[k])]]
        /\ UNCHANGED <<raster_vars, call, ncalls, analysis_vars, dedup,
                       reclass, history, mapper, runs>>

\* The claims of the runs that compare orders: of one kind, so that two
\* features differ by their position alone.
OrderCollections ==
    { gdf \in FeatureCollections : \A i \in 1 .. Len(gdf) : gdf[i].attr = "auto" }

InitOrder ==
    /\ flood_data \in Rasters
    /\ flood_crs \in CRSs
    /\ search_distance = ClaimSearchDistance
    /\ call = NoCall
    /\ ncalls = 0
    /\ claims_gdf \in OrderCollections
    /\ claims_unique = <<>>
    /\ pc = "start"
    /\ idx = 0
    /\ total_claims = 0
    /\ covered_claims = 0
    /\ flood_categories = EmptyHistogram
    /\ result = <<>>
    /\ dedup = NoDedup
    /\ reclass = NoReclass
    /\ history = <<>>
    /\ mapper = NoMapper
    /\ partial = [taken |-> <<>>, parts |-> [w \in 1 .. MaxWorkers |-> EmptyPart]]
    /\ runs = <<>>

NextOrder == Prepare \/ ProcessClaim \/ Finish \/ Accumulate

SpecOrder == InitOrder /\ [][NextOrder]_vars

\* The partial results of the workers, summed.
MergedHistogram ==
    [c \in FloodCategories |->
        SumOver([w \in 1 .. MaxWorkers |-> partial.parts[w].histogram[c]],
                1 .. MaxWorkers)]

MergedCovered ==
    SumOver([w \in 1 .. MaxWorkers |-> partial.parts[w].covered], 1 .. MaxWorkers)

MergedTotal ==
    SumOver([w \in 1 .. MaxWorkers |-> partial.parts[w].total], 1 .. MaxWorkers)

AllTaken == pc \in {"done", "raised"} /\ Len(partial.taken) = Len(claims_unique)

\* C21. Order-free accumulation: when the sequential loop has completed and
\* the workers have taken every deduplicated claim, in whatever order and
\* however shared out, no worker has raised and the sums of their histograms,
\* covered counts and totals are the histogram, covered_claims and
\* total_claims of the sequential loop.
C21_OrderFreeAccumulation ==
    (AllTaken /\ pc = "done")
        => /\ \A w \in 1 .. MaxWorkers : partial.parts[w].outcome # "raised"
           /\ MergedHistogram = flood_categories
           /\ MergedCovered = covered_claims
           /\ MergedTotal = total_claims

\* C21 witness: two claims, one flooded in category 3 and one dry, were taken
\* in the reverse of the loop's order, each by a worker of its own.
C21_Witness ==
    /\ pc = "done"
    /\ total_claims = 2
    /\ partial.taken = <<2, 1>>
    /\ partial.parts[1].total = 1
    /\ partial.parts[2].total = 1
    /\ partial.parts[1].histogram[3] = 1
    /\ partial.parts[2].histogram[0] = 1
    /\ flood_categories[3] = 1
    /\ flood_categories[0] = 1
    /\ covered_claims = 1

\* ----------------------------- analyze_flood_accuracy on a reordered frame
\* The orders of a frame of n rows.
Orders(n) ==
    { f \in [1 .. n -> 1 .. n] : \A i, j \in 1 .. n : f[i] = f[j] => i = j }

\* A call of analyze_flood_accuracy as it ended.
Ended ==
    [claims_gdf |-> claims_gdf, claims_unique |-> claims_unique, pc |-> pc,
     total_claims |-> total_claims, covered_claims |-> covered_claims,
     flood_categories |-> flood_categories, result |-> result]

\* main calls analyze_flood_accuracy once more, on the same raster, with the
\* rows of the frame in some order.
Reorder ==
    \E order \in Orders(Len(claims_gdf)) :
        /\ pc \in {"done", "raised"}
        /\ Len(runs) + 1 < MaxRuns
        /\ runs' = Append(runs, Ended)
        /\ claims_gdf' = [i \in 1 .. Len(claims_gdf) |-> claims_gdf[order[i]]]
        /\ claims_unique' = <<>>
        /\ pc' = "start"
        /\ idx' = 0
        /\ total_claims' = 0
        /\ covered_claims' = 0
        /\ flood_categories' = EmptyHistogram
        /\ result' = <<>>
        /\ UNCHANGED <<raster_vars, call, ncalls, dedup, reclass, history,
                       mapper, partial>>

InitPermute ==
    /\ flood_data \in Rasters
    /\ flood_crs \in CRSs
    /\ search_distance = ClaimSearchDistance
    /\ call = NoCall
    /\ ncalls = 0
    /\ claims_gdf \in OrderCollections
    /\ claims_unique = <<>>
    /\ pc = "start"
    /\ idx = 0
    /\ total_claims = 0
    /\ covered_claims = 0
    /\ flood_categories = EmptyHistogram
    /\ result = <<>>
    /\ NoOther

NextPermute == Prepare \/ ProcessClaim \/ Finish \/ Reorder

SpecPermute == InitPermute /\ [][NextPermute]_vars

\* The call on the reordered frame has ended too.
BothEnded == Len(runs) > 0 /\ pc \in {"done", "raised"}

\* No two claims inside the footprint round to the same coordinates: the
\* deduplication removed nothing.
NoSharedCoordinate ==
    Len(claims_unique)
        = Len(overlay_intersection(claims_to_crs(claims_gdf, "EPSG:4326",
                                                 flood_crs)))

\* C26 as stated.  Permutation invariance: the call on the reordered frame
\* ends as the first call did and returns the same total_claims,
\* covered_claims and histogram, also when claims share a rounded coordinate.
C26_PermutationInvariance ==
    BothEnded
        => \A i \in 1 .. Len(runs) :
              /\ runs[i].pc = pc
              /\ runs[i].result = result

\* C26, amended.  The number of claims kept, total_claims, is the same for
\* every order of the frame; when no two claims inside the footprint share a
\* rounded coordinate, the call on the reordered frame ends as the first call
\* did and returns the same total_claims, covered_claims and histogram.
C26_PermutationInvarianceOfDistinct ==
    BothEnded
        => \A i \in 1 .. Len(runs) :
              /\ Len(runs[i].claims_unique) = Len(claims_unique)
              /\ runs[i].total_claims = total_claims
              /\ NoSharedCoordinate
                    => /\ runs[i].pc = pc
                       /\ runs[i].result = result

\* C26 witness: two claims at distinct rounded coordinates, one flooded in
\* category 3 and one dry, were analysed in both orders with the same result.
C26_Witness ==
    /\ Len(runs) = 1
    /\ pc = "done"
    /\ runs[1].pc = "done"
    /\ NoSharedCoordinate
    /\ Len(claims_gdf) = 2
    /\ claims_gdf # runs[1].claims_gdf
    /\ total_claims = 2
    /\ covered_claims = 1
    /\ flood_categories[3] = 1
    /\ runs[1].result = result

====
